---- MODULE Spec2Model ----
(***************************************************************************)
(* Model of the auto-muter backend (browser-extension/backend/main.py):    *)
(* the per-user speaker databases, the in-memory gallery cache             *)
(* speaker_embeddings, the administrative HTTP handlers and the streaming  *)
(* websocket handler.                                                      *)
(*                                                                         *)
(* Every HTTP handler is an `async def` without an await in its body, and  *)
(* load_embeddings_for_user / is_target_speaker are plain functions, so on *)
(* the single asyncio event loop each of them runs atomically.  The        *)
(* websocket handler suspends at `await websocket.accept()`,               *)
(* `await websocket.receive_bytes()` and `await websocket.send_json()`;    *)
(* these are the positions recorded in pc.  What the caller of an          *)
(* administrative request gets back (a payload, or an exception that left  *)
(* the handler) is computed by the <handler>_returns operators; the        *)
(* specification that records it in `response` is SpecAdmission.           *)
(*                                                                         *)
(* Arithmetic.  Embeddings are vectors of rationals with a common          *)
(* denominator, [num |-> <<integers>>, den |-> positive integer]; float32  *)
(* rounding is not modelled.  A cosine similarity c is carried as the      *)
(* rational sgn(c) * c^2 (the map c |-> sgn(c) * c^2 is strictly           *)
(* increasing on [-1, 1], so every comparison the code makes - with the    *)
(* threshold, with 0.0, between two scores - is decided exactly without a  *)
(* square root).                                                           *)
(*                                                                         *)
(* The second part models one run of the mining pipeline                   *)
(* (data-processing/extract_speaker_samples.py): the main process of       *)
(* extract_samples, which works round by round, and the worker processes   *)
(* that run process_single_raw_audio_file, one task per raw file.  A task  *)
(* is one step: workers share nothing but the round directory, into which  *)
(* each of them only adds files.  Confidence thresholds are carried in     *)
(* tenths and times in milliseconds.                                       *)
(*                                                                         *)
(* The third part models runs of the enrollment tool                       *)
(* (scripts/enroll_speaker.py) on its own database file; a run is one      *)
(* step, its sqlite transaction being committed or discarded as a whole.   *)
(***************************************************************************)
EXTENDS Integers, Sequences, FiniteSets, TLC

VARIABLES
    db,                 \* userId -> the user's sqlite file speakers_<userId>.db
    speaker_embeddings, \* the module-level dict { userId: { name: embedding } }
    pc,                 \* websocket handler position of every connection
    user_id,            \* path parameter of every connection
    data,               \* the chunk last returned by receive_bytes
    response_data,      \* the decision built for that chunk
    received,           \* history: chunks taken from the channel
    emitted,            \* history: decisions handed to send_json successfully
    badSeen,            \* history: a chunk of this connection failed to decode or embed
    tmp,                \* the files in the backend's tmp directory
    response,           \* history: the last administrative request and what its caller got back
    \* data-processing/extract_speaker_samples.py (one run of extract_samples)
    raw_audio,          \* RAW_AUDIO_DIR: file -> what loading and VAD give for it
    initial_sample,     \* SPEAKER_SAMPLES_DIR/<speaker>.mp3
    num_rounds,         \* the --rounds argument
    speakers_dir,       \* OUTPUT_SPEAKERS_DIR/<speaker>: k -> files of run_k (file name -> voice print)
    mpc,                \* position of the main process
    round_num,
    current_embedding_source,
    current_confidence_threshold,   \* in tenths
    master_embedding_np,
    found_clips_count,
    futures,            \* raw file -> the task submitted for it in the current round
    used,               \* history: threshold and master embedding of every round that ran
    accepted,           \* history: k -> the clips written in round k
    \* scripts/enroll_speaker.py (the enrollment tool run from the command line)
    speakers_db,        \* the sqlite file at DB_PATH, backend/speakers.db
    embeddings_dir,     \* the .npy files in SPEAKERS_DIR
    tool_run            \* history: the last run of the tool and whether it committed

wsVars == <<pc, user_id, data, response_data, received, emitted, badSeen>>
serviceVars == <<db, speaker_embeddings, pc, user_id, data, response_data, received, emitted, badSeen,
                 tmp, response>>
miningVars == <<raw_audio, initial_sample, num_rounds, speakers_dir, mpc, round_num,
                current_embedding_source, current_confidence_threshold, master_embedding_np,
                found_clips_count, futures, used, accepted>>
toolVars == <<speakers_db, embeddings_dir, tool_run>>
vars == <<serviceVars, miningVars, toolVars>>
\* all but the record of the last request
stateVars == <<db, speaker_embeddings, wsVars, tmp, miningVars, toolVars>>

----------------------------------------------------------------------------
(* Bounds and input sets *)

MaxSources == 3       \* source rows of a pre-existing database (SpecStream)
MaxInitSources == 2   \* source rows of a pre-existing database (Spec)
MaxChunks == 2        \* chunks a connection delivers
MaxRounds == 6        \* largest --rounds argument of a mining run

Sessions == {"c1", "c2"}
UserIds == {"u1"}
\* user ids that requests and connections may carry besides those of UserIds
MalformedIds == {"", "../u1"}
UserIdInputs == UserIds \cup MalformedIds
Names == {"alice", "bob"}
None == "None"
Urls == {"url1"}
Timestamps == {None, "0-5"}

\* live and enrolled voice prints; against LiveA the three enrolled vectors
\* score 1/sqrt(5) (above 0.4), exactly 0.4 and -1; against LiveB they score
\* 2/sqrt(5), 0.8 and 0.
LiveA == <<1, 0, 0, 0>>
LiveB == <<0, 1, 0, 0>>
EnrA == <<1, 2, 0, 0>>
EnrB == <<2, 4, 2, 1>>
EnrC == <<-1, 0, 0, 0>>
LiveVecs == {LiveA, LiveB}
EnrolledVecs == {EnrA, EnrB, EnrC}
ZeroVec == <<0, 0, 0, 0>>

\* a chunk either fails in AudioSegment.from_file ("corrupt"), fails in the
\* inference call ("noinfer"), or yields the live embedding emb
Chunks == {[kind |-> "corrupt", emb |-> ZeroVec], [kind |-> "noinfer", emb |-> ZeroVec]}
          \cup {[kind |-> "ok", emb |-> v] : v \in LiveVecs}
NoChunk == [kind |-> "none", emb |-> ZeroVec]
\* the chunks of the system specification: one undecodable, one of a live voice
SystemChunks == {[kind |-> "corrupt", emb |-> ZeroVec], [kind |-> "ok", emb |-> LiveA]}

----------------------------------------------------------------------------
(* Vectors, embeddings and similarities *)

VecAdd(a, b) == [i \in DOMAIN a |-> a[i] + b[i]]
VecScale(k, a) == [i \in DOMAIN a |-> k * a[i]]

RECURSIVE DotFrom(_, _, _)
DotFrom(a, b, i) == IF i > Len(a) THEN 0 ELSE a[i] * b[i] + DotFrom(a, b, i + 1)
Dot(a, b) == DotFrom(a, b, 1)

\* np.frombuffer(...) -> tensor -> unsqueeze(0): one stored vector, shape (1, d)
EmbeddingFromBlob(blob) == [num |-> blob, den |-> 1]

\* mutant: the embedding already held is kept
MeanOfPairKeepsExisting(existing, embedding_tensor) == existing

\* torch.cat([existing, embedding_tensor]).mean(dim=0, keepdim=True)
MeanOfPair(existing, embedding_tensor) ==
    [num |-> VecAdd(VecScale(embedding_tensor.den, existing.num),
                    VecScale(existing.den, embedding_tensor.num)),
     den |-> 2 * existing.den * embedding_tensor.den]

EmbEq(a, b) == VecScale(b.den, a.num) = VecScale(a.den, b.num)

\* similarities, as sgn(c) * c^2
ZeroSim == [num |-> 0, den |-> 1]
SimGT(a, b) == a.num * b.den > b.num * a.den
SimEq(a, b) == a.num * b.den = b.num * a.den
SimMax(a, b) == IF SimGT(b, a) THEN b ELSE a
Sgn(x) == IF x > 0 THEN 1 ELSE IF x < 0 THEN -1 ELSE 0

\* THRESHOLD = 0.4 = 2/5, as a similarity
THRESHOLD == [num |-> 2 * 2, den |-> 5 * 5]

\* torch.nn.functional.cosine_similarity(live, enrolled).item(); a zero vector
\* gives 0 (the denominator is clamped to eps, the numerator is 0)
cosine_similarity(live, enrolled) ==
    LET d == Dot(live, enrolled.num)
        n == Dot(live, live) * Dot(enrolled.num, enrolled.num)
    IN  IF n = 0 THEN ZeroSim ELSE [num |-> Sgn(d) * d * d, den |-> n]

----------------------------------------------------------------------------
(* The per-user database *)

\* the characters of a user id
Spelling(userId) ==
    CASE userId = "u1" -> <<"u", "1">>
      [] userId = "" -> <<>>
      [] userId = "../u1" -> <<".", ".", "/", "u", "1">>

\* str.isalnum for one character (the ASCII letters and digits)
Alnum ==
    {"a", "b", "c", "d", "e", "f", "g", "h", "i", "j", "k", "l", "m", "n", "o", "p", "q", "r",
     "s", "t", "u", "v", "w", "x", "y", "z", "0", "1", "2", "3", "4", "5", "6", "7", "8", "9"}
isalnum(c) == c \in Alnum

\* mutant: no validation of the user id
get_db_path_unchecked(userId) == [raised |-> FALSE, path |-> userId]

\* get_db_path: raises ValueError for an empty user id or one with a character
\* other than alphanumerics, '-' and '_'; else the path speakers_<userId>.db
get_db_path(userId) ==
    IF \/ Spelling(userId) = <<>>
       \/ ~\A i \in DOMAIN Spelling(userId) :
              isalnum(Spelling(userId)[i]) \/ Spelling(userId)[i] \in {"-", "_"}
    THEN [raised |-> TRUE, path |-> None]
    ELSE [raised |-> FALSE, path |-> userId]

NoDb == [exists |-> FALSE, schema |-> FALSE, speakers |-> <<>>, sources |-> <<>>]
EmptyDb == [exists |-> TRUE, schema |-> TRUE, speakers |-> <<>>, sources |-> <<>>]

initialize_db(d) == IF d.exists THEN d ELSE EmptyDb

\* sqlite3.connect(db_path) creates the file when it is missing (no tables)
sqlite_connect(d) == [d EXCEPT !.exists = TRUE]

SpeakerIds(d) == {d.speakers[i].id : i \in DOMAIN d.speakers}
SpeakerNames(d) == {d.speakers[i].name : i \in DOMAIN d.speakers}
NameOfId(d, id) == d.speakers[CHOOSE i \in DOMAIN d.speakers : d.speakers[i].id = id].name
IdOfName(d, name) == d.speakers[CHOOSE i \in DOMAIN d.speakers : d.speakers[i].name = name].id

\* SELECT s.name, src.embedding FROM speakers s JOIN sources src ON s.id = src.speaker_id
\* sqlite scans sources in rowid order and looks the speaker up by primary key
RECURSIVE JoinFrom(_, _)
JoinFrom(d, i) ==
    IF i > Len(d.sources) THEN <<>>
    ELSE IF d.sources[i].speaker_id \in SpeakerIds(d)
         THEN <<[name |-> NameOfId(d, d.sources[i].speaker_id),
                 embedding |-> d.sources[i].embedding]>> \o JoinFrom(d, i + 1)
         ELSE JoinFrom(d, i + 1)
JoinRows(d) == IF d.schema THEN JoinFrom(d, 1) ELSE <<>>

\* a gallery is the insertion-ordered dict { speaker_name: embedding }, kept as
\* the sequence of its items
GalleryNames(g) == {g[i].name : i \in DOMAIN g}
GalleryIndex(g, name) == CHOOSE i \in DOMAIN g : g[i].name = name

\* the loop body of load_embeddings_for_user for one row
AddRow(g, row) ==
    LET embedding_tensor == EmbeddingFromBlob(row.embedding)
    IN  IF row.name \in GalleryNames(g)
        THEN [g EXCEPT ![GalleryIndex(g, row.name)].embedding =
                            MeanOfPair(g[GalleryIndex(g, row.name)].embedding, embedding_tensor)]
        ELSE Append(g, [name |-> row.name, embedding |-> embedding_tensor])

RECURSIVE LoadRows(_, _, _)
LoadRows(rows, i, g) == IF i > Len(rows) THEN g ELSE LoadRows(rows, i + 1, AddRow(g, rows[i]))

\* user_specific_embeddings as load_embeddings_for_user builds it from the file
LoadGallery(d) == LoadRows(JoinRows(initialize_db(d)), 1, <<>>)

----------------------------------------------------------------------------
(* The decision *)

\* what is_target_speaker returns: the pair (is_target, similarity_score); speaker
\* is the name its MATCH log line prints; raised says that an exception left the
\* function instead
NoMatch(similarity_score) ==
    [raised |-> FALSE, is_target |-> FALSE, similarity_score |-> similarity_score, speaker |-> None]
Match(similarity_score, speaker_name) ==
    [raised |-> FALSE, is_target |-> TRUE, similarity_score |-> similarity_score, speaker |-> speaker_name]

\* mutants of the scan: the best-scoring speaker wins; the threshold is inclusive
RECURSIVE ScanGalleryBest(_, _, _, _)
ScanGalleryBest(user_embeddings, live, i, m) ==
    LET Score(k) == cosine_similarity(live, user_embeddings[k].embedding)
        best == CHOOSE k \in DOMAIN user_embeddings :
                    \A j \in DOMAIN user_embeddings : ~SimGT(Score(j), Score(k))
    IN  IF SimGT(Score(best), THRESHOLD)
        THEN Match(Score(best), user_embeddings[best].name)
        ELSE NoMatch(SimMax(m, Score(best)))

RECURSIVE ScanGalleryInclusive(_, _, _, _)
ScanGalleryInclusive(user_embeddings, live, i, m) ==
    IF i > Len(user_embeddings) THEN NoMatch(m)
    ELSE LET similarity_score == cosine_similarity(live, user_embeddings[i].embedding)
         IN  IF ~SimGT(THRESHOLD, similarity_score)
             THEN Match(similarity_score, user_embeddings[i].name)
             ELSE ScanGalleryInclusive(user_embeddings, live, i + 1, SimMax(m, similarity_score))

\* the for loop of is_target_speaker from item i on, max_similarity_score = m
RECURSIVE ScanGallery(_, _, _, _)
ScanGallery(user_embeddings, live, i, m) ==
    IF i > Len(user_embeddings) THEN NoMatch(m)
    ELSE LET similarity_score == cosine_similarity(live, user_embeddings[i].embedding)
         IN  IF SimGT(similarity_score, THRESHOLD)
             THEN Match(similarity_score, user_embeddings[i].name)
             ELSE ScanGallery(user_embeddings, live, i + 1, SimMax(m, similarity_score))

\* mutant: no except clause, the exception of a bad chunk leaves the function
DetectSpeakerUncaught(audio_data, user_embeddings) ==
    IF audio_data.kind # "ok" THEN [NoMatch(ZeroSim) EXCEPT !.raised = TRUE]
    ELSE ScanGallery(user_embeddings, audio_data.emb, 1, ZeroSim)

\* the try block: decoding or inference raises for a bad chunk, and
\* `except Exception` turns that into (False, 0.0)
DetectSpeaker(audio_data, user_embeddings) ==
    IF audio_data.kind # "ok" THEN NoMatch(ZeroSim)
    ELSE ScanGallery(user_embeddings, audio_data.emb, 1, ZeroSim)

is_target_speaker(audio_data, userId, cache) ==
    IF userId \notin DOMAIN cache \/ cache[userId] = <<>> THEN NoMatch(ZeroSim)
    ELSE DetectSpeaker(audio_data, cache[userId])

\* mutant: the action does not follow the decision
ResponseDataAlwaysUnmute(is_target, similarity_score) ==
    [action |-> "UNMUTE",
     similarity_score |-> similarity_score,
     isTargetSpeaker |-> is_target]

\* response_data of websocket_endpoint; similarity_score is the value handed to round(., 4)
ResponseData(is_target, similarity_score) ==
    [action |-> IF is_target THEN "MUTE" ELSE "UNMUTE",
     similarity_score |-> similarity_score,
     isTargetSpeaker |-> is_target]
NoResponse == [action |-> None, similarity_score |-> ZeroSim, isTargetSpeaker |-> FALSE]

----------------------------------------------------------------------------
(* Databases that exist on disk when the service starts *)

BSeq(S, n) == UNION {[1..k -> S] : k \in 0..n}

\* one committed enrollment: the speaker row is created on first use, the source
\* row references it (schema of initialize_db)
InsertSource(d, e) ==
    LET known == e.name \in SpeakerNames(d)
        sid == IF known THEN IdOfName(d, e.name) ELSE Len(d.speakers) + 1
    IN  [d EXCEPT !.speakers = IF known THEN @ ELSE Append(@, [id |-> sid, name |-> e.name]),
                  !.sources = Append(@, [speaker_id |-> sid, source_url |-> e.url,
                                         timestamp |-> e.timestamp, embedding |-> e.embedding])]

RECURSIVE PopulatedDb(_, _)
PopulatedDb(es, i) == IF i = 0 THEN EmptyDb ELSE InsertSource(PopulatedDb(es, i - 1), es[i])

Enrollments(vecs, timestamps) ==
    [name : Names, url : Urls, timestamp : timestamps, embedding : vecs]

\* every database holding at most n sources; a user who never used the service has no file
InitialDbs(vecs, timestamps, n) ==
    {NoDb} \cup {PopulatedDb(es, Len(es)) : es \in BSeq(Enrollments(vecs, timestamps), n)}

----------------------------------------------------------------------------
(* websocket_endpoint *)

\* await websocket.accept()
Accept(s, u) ==
    /\ pc[s] = "idle"
    /\ pc' = [pc EXCEPT ![s] = "accepted"]
    /\ user_id' = [user_id EXCEPT ![s] = u]
    /\ UNCHANGED <<db, speaker_embeddings, data, response_data, received, emitted, badSeen, miningVars, toolVars, tmp, response>>

\* mutant: the rows are added to the entry the cache already holds
StoreGalleryOntoOld(cache, u, d) ==
    [v \in DOMAIN cache \cup {u} |->
        IF v = u
        THEN LoadRows(JoinRows(initialize_db(d)), 1, IF u \in DOMAIN cache THEN cache[u] ELSE <<>>)
        ELSE cache[v]]

\* user_specific_embeddings = {} ... speaker_embeddings[userId] = user_specific_embeddings
StoreGallery(cache, u, d) ==
    [v \in DOMAIN cache \cup {u} |-> IF v = u THEN LoadGallery(d) ELSE cache[v]]

\* load_embeddings_for_user: initialize_db, then speaker_embeddings[userId] = ...
load_embeddings_for_user(u) ==
    /\ db' = [db EXCEPT ![u] = initialize_db(@)]
    /\ speaker_embeddings' = StoreGallery(speaker_embeddings, u, db[u])

\* mutant: the finally clause leaves the cache entry in place
CloseSessionKeepsCache(s) ==
    /\ UNCHANGED speaker_embeddings
    /\ data' = [data EXCEPT ![s] = NoChunk]
    /\ response_data' = [response_data EXCEPT ![s] = NoResponse]
    /\ pc' = [pc EXCEPT ![s] = "closed"]

\* except Exception (anything raised inside the try), then
\* finally: if user_id in speaker_embeddings: del speaker_embeddings[user_id]
CloseSession(s) ==
    /\ speaker_embeddings' = [v \in DOMAIN speaker_embeddings \ {user_id[s]} |-> speaker_embeddings[v]]
    /\ data' = [data EXCEPT ![s] = NoChunk]
    /\ response_data' = [response_data EXCEPT ![s] = NoResponse]
    /\ pc' = [pc EXCEPT ![s] = "closed"]

\* if user_id not in speaker_embeddings: load_embeddings_for_user(user_id), which
\* raises for a user id that get_db_path refuses; else enter the loop
EnterLoop(s) ==
    /\ pc[s] = "accepted"
    /\ IF user_id[s] \notin DOMAIN speaker_embeddings /\ get_db_path(user_id[s]).raised
       THEN /\ CloseSession(s)
            /\ UNCHANGED <<db, user_id, received, emitted, badSeen, miningVars, toolVars, tmp, response>>
       ELSE /\ IF user_id[s] \notin DOMAIN speaker_embeddings
               THEN load_embeddings_for_user(user_id[s])
               ELSE UNCHANGED <<db, speaker_embeddings>>
            /\ pc' = [pc EXCEPT ![s] = "recv"]
            /\ UNCHANGED <<user_id, data, response_data, received, emitted, badSeen, miningVars, toolVars, tmp, response>>

\* mutant: the decision is sent from a background task, the loop takes the next chunk at once
ReceiveChunkPipelined(s, d) ==
    /\ pc[s] = "recv"
    /\ received[s] < MaxChunks
    /\ received' = [received EXCEPT ![s] = @ + 1]
    /\ badSeen' = [badSeen EXCEPT ![s] = @ \/ d.kind # "ok"]
    /\ UNCHANGED <<db, speaker_embeddings, pc, user_id, data, response_data, emitted, miningVars, toolVars, tmp, response>>

\* data = await websocket.receive_bytes(); is_target_speaker(data, user_id); response_data = ...
ReceiveChunk(s, d) ==
    LET result == is_target_speaker(d, user_id[s], speaker_embeddings)
    IN  /\ pc[s] = "recv"
        /\ received[s] < MaxChunks
        /\ received' = [received EXCEPT ![s] = @ + 1]
        /\ badSeen' = [badSeen EXCEPT ![s] = @ \/ d.kind # "ok"]
        /\ IF result.raised
           THEN CloseSession(s)
           ELSE /\ data' = [data EXCEPT ![s] = d]
                /\ response_data' = [response_data EXCEPT ![s] =
                                        ResponseData(result.is_target, result.similarity_score)]
                /\ pc' = [pc EXCEPT ![s] = "send"]
                /\ UNCHANGED speaker_embeddings
        /\ UNCHANGED <<db, user_id, emitted, miningVars, toolVars, tmp, response>>

\* await websocket.send_json(response_data) returns; back to the top of the loop
\* (data and response_data are dead until the next chunk overwrites them)
SendDecision(s) ==
    /\ pc[s] = "send"
    /\ emitted' = [emitted EXCEPT ![s] = @ + 1]
    /\ data' = [data EXCEPT ![s] = NoChunk]
    /\ response_data' = [response_data EXCEPT ![s] = NoResponse]
    /\ pc' = [pc EXCEPT ![s] = "recv"]
    /\ UNCHANGED <<db, speaker_embeddings, user_id, received, badSeen, miningVars, toolVars, tmp, response>>

\* receive_bytes or send_json raises: the channel closed or failed
Disconnect(s) ==
    /\ pc[s] \in {"recv", "send"}
    /\ CloseSession(s)
    /\ UNCHANGED <<db, user_id, received, emitted, badSeen, miningVars, toolVars, tmp, response>>

----------------------------------------------------------------------------
(* The administrative handlers *)

\* mutant: the file is replaced, the cached gallery is left as it is
wipe_db_keeps_cache(u) ==
    IF u = "" \/ get_db_path(u).raised THEN UNCHANGED stateVars
    ELSE
    /\ db' = [db EXCEPT ![u] = initialize_db(NoDb)]
    /\ UNCHANGED <<speaker_embeddings, wsVars, tmp, miningVars, toolVars>>

\* POST /wipe-db
wipe_db(u) ==
    IF u = "" \/ get_db_path(u).raised THEN UNCHANGED stateVars
    ELSE
    /\ speaker_embeddings' =
          [v \in DOMAIN speaker_embeddings |-> IF v = u THEN <<>> ELSE speaker_embeddings[v]]
    /\ db' = [db EXCEPT ![u] = initialize_db(NoDb)]
    /\ UNCHANGED <<wsVars, tmp, miningVars, toolVars>>

\* mutant: only the speaker row is deleted, its source rows stay behind
delete_speaker_keeps_sources(u, speaker_name) ==
    LET conn == sqlite_connect(db[u])
    IN  /\ IF conn.schema /\ speaker_name \in SpeakerNames(conn)
           THEN LET speaker_id == IdOfName(conn, speaker_name)
                    committed ==
                      [conn EXCEPT !.speakers = SelectSeq(@, LAMBDA r : r.id # speaker_id)]
                IN  /\ db' = [db EXCEPT ![u] = committed]
                    /\ speaker_embeddings' =
                          [v \in DOMAIN speaker_embeddings \cup {u} |->
                              IF v = u THEN LoadGallery(committed) ELSE speaker_embeddings[v]]
           ELSE /\ db' = [db EXCEPT ![u] = conn]
                /\ UNCHANGED speaker_embeddings
        /\ UNCHANGED <<wsVars, tmp, miningVars, toolVars>>

\* DELETE /speaker/{speaker_name}
delete_speaker(u, speaker_name) ==
    IF get_db_path(u).raised THEN UNCHANGED stateVars
    ELSE
    LET conn == sqlite_connect(db[u])
    IN  /\ IF conn.schema /\ speaker_name \in SpeakerNames(conn)
           THEN LET speaker_id == IdOfName(conn, speaker_name)
                    committed ==
                      [conn EXCEPT !.sources = SelectSeq(@, LAMBDA r : r.speaker_id # speaker_id),
                                   !.speakers = SelectSeq(@, LAMBDA r : r.id # speaker_id)]
                IN  /\ db' = [db EXCEPT ![u] = committed]
                    /\ speaker_embeddings' =
                          [v \in DOMAIN speaker_embeddings \cup {u} |->
                              IF v = u THEN LoadGallery(committed) ELSE speaker_embeddings[v]]
           ELSE /\ db' = [db EXCEPT ![u] = conn]
                /\ UNCHANGED speaker_embeddings
        /\ UNCHANGED <<wsVars, tmp, miningVars, toolVars>>

\* mutant: the source is deleted and committed, the cache is not reloaded
delete_source_stale(u, speaker_name, source_url, timestamp) ==
    LET conn == sqlite_connect(db[u])
        speaker_id == IdOfName(conn, speaker_name)
        Hit(r) == /\ r.speaker_id = speaker_id
                  /\ r.source_url = source_url
                  /\ IF timestamp # None THEN r.timestamp = timestamp ELSE r.timestamp = None
    IN  /\ db' = [db EXCEPT ![u] =
                    IF conn.schema /\ speaker_name \in SpeakerNames(conn)
                    THEN [conn EXCEPT !.sources = SelectSeq(@, LAMBDA r : ~Hit(r))] ELSE conn]
        /\ UNCHANGED <<speaker_embeddings, wsVars, tmp, miningVars, toolVars>>

\* DELETE /source
delete_source(u, speaker_name, source_url, timestamp) ==
    IF u = "" \/ get_db_path(u).raised THEN UNCHANGED stateVars
    ELSE
    LET conn == sqlite_connect(db[u])
        speaker_id == IdOfName(conn, speaker_name)
        Hit(r) == /\ r.speaker_id = speaker_id
                  /\ r.source_url = source_url
                  /\ IF timestamp # None THEN r.timestamp = timestamp ELSE r.timestamp = None
        committed == [conn EXCEPT !.sources = SelectSeq(@, LAMBDA r : ~Hit(r))]
    IN  /\ IF /\ conn.schema
              /\ speaker_name \in SpeakerNames(conn)
              /\ \E i \in DOMAIN conn.sources : Hit(conn.sources[i])
           THEN /\ db' = [db EXCEPT ![u] = committed]
                /\ speaker_embeddings' =
                      [v \in DOMAIN speaker_embeddings \cup {u} |->
                          IF v = u THEN LoadGallery(committed) ELSE speaker_embeddings[v]]
           ELSE /\ db' = [db EXCEPT ![u] = conn]
                /\ UNCHANGED speaker_embeddings
        /\ UNCHANGED <<wsVars, tmp, miningVars, toolVars>>

\* the options scripts/enroll_speaker.py declares, and those the backend passes
ScriptOptions == {"-h", "--help", "-n", "--name", "-i", "--input_path", "--url", "--timestamp"}
EnrollCommandOptions(timestamp) ==
    {"-n", "-i", "--url", "--db-path"} \cup (IF timestamp # None THEN {"--timestamp"} ELSE {})
\* argparse ends the script with status 2 on an option it does not know
ScriptAccepts(options) == options \subseteq ScriptOptions

\* values of uuid.uuid4().hex
TempIds == {"5e0c"}
\* os.path.join(temp_dir, f"{speaker_name}_{uuid.uuid4().hex}.wav")
DownloadedAudioPath(speaker_name, hex) == [speaker_name |-> speaker_name, hex |-> hex]

\* mutant: the finally clause does not remove the file
KeepFile(files, path) == files

\* if os.path.exists(path): os.remove(path)
RemoveIfExists(files, path) == files \ {path}

\* POST /enroll; downloaded: yt-dlp ended with status 0 and wrote the audio file
enroll_speaker(u, speaker_name, youtube_url, timestamp, downloaded) ==
    IF u = "" \/ get_db_path(u).raised THEN UNCHANGED stateVars
    ELSE
    /\ IF downloaded /\ ScriptAccepts(EnrollCommandOptions(timestamp))
       THEN load_embeddings_for_user(u)
       ELSE /\ db' = [db EXCEPT ![u] = initialize_db(@)]
            /\ UNCHANGED speaker_embeddings
    /\ \E hex \in TempIds :
          LET downloaded_audio_path == DownloadedAudioPath(speaker_name, hex)
              written == IF downloaded THEN tmp \cup {downloaded_audio_path} ELSE tmp
          IN  tmp' = RemoveIfExists(written, downloaded_audio_path)
    /\ UNCHANGED <<wsVars, miningVars, toolVars>>

\* GET /check-speaker/{speaker_name} and GET /get-speakers: initialize_db, then read
check_speaker(u, speaker_name) ==
    IF get_db_path(u).raised THEN UNCHANGED stateVars
    ELSE
    /\ db' = [db EXCEPT ![u] = initialize_db(@)]
    /\ UNCHANGED <<speaker_embeddings, wsVars, tmp, miningVars, toolVars>>

get_speakers(u) ==
    IF get_db_path(u).raised THEN UNCHANGED stateVars
    ELSE
    /\ db' = [db EXCEPT ![u] = initialize_db(@)]
    /\ UNCHANGED <<speaker_embeddings, wsVars, tmp, miningVars, toolVars>>

----------------------------------------------------------------------------
(* What the caller of an administrative request gets back *)

\* no request yet
NoRequest == [op |-> None, userId |-> None, acquired |-> FALSE, raised |-> FALSE, status |-> None]

\* the handler returned a payload; status is its "status" entry (None: the
\* payloads of check-speaker and get-speakers have none)
Returned(op, u, acquired, status) ==
    [op |-> op, userId |-> u, acquired |-> acquired, raised |-> FALSE, status |-> status]

\* an exception left the handler
Raised(op, u) == [op |-> op, userId |-> u, acquired |-> FALSE, raised |-> TRUE, status |-> None]

wipe_db_returns(u) ==
    IF u = "" THEN Returned("wipe_db", u, FALSE, "error")
    ELSE IF get_db_path(u).raised THEN Raised("wipe_db", u)
    ELSE Returned("wipe_db", u, FALSE, "success")

\* a file without tables makes the SELECT raise sqlite3.Error, which is caught
delete_speaker_returns(u, speaker_name) ==
    IF get_db_path(u).raised THEN Raised("delete_speaker", u)
    ELSE LET conn == sqlite_connect(db[u])
         IN  IF conn.schema /\ speaker_name \in SpeakerNames(conn)
             THEN Returned("delete_speaker", u, FALSE, "success")
             ELSE Returned("delete_speaker", u, FALSE, "error")

delete_source_returns(u, speaker_name, source_url, timestamp) ==
    IF u = "" THEN Returned("delete_source", u, FALSE, "error")
    ELSE IF get_db_path(u).raised THEN Raised("delete_source", u)
    ELSE LET conn == sqlite_connect(db[u])
             speaker_id == IdOfName(conn, speaker_name)
             Hit(r) == /\ r.speaker_id = speaker_id
                       /\ r.source_url = source_url
                       /\ IF timestamp # None THEN r.timestamp = timestamp ELSE r.timestamp = None
         IN  IF /\ conn.schema
                /\ speaker_name \in SpeakerNames(conn)
                /\ \E i \in DOMAIN conn.sources : Hit(conn.sources[i])
             THEN Returned("delete_source", u, FALSE, "success")
             ELSE Returned("delete_source", u, FALSE, "error")

\* CalledProcessError from yt-dlp or from the script: "status": "error"
enroll_speaker_returns(u, speaker_name, youtube_url, timestamp, downloaded) ==
    IF u = "" THEN Returned("enroll_speaker", u, FALSE, "error")
    ELSE IF get_db_path(u).raised THEN Raised("enroll_speaker", u)
    ELSE IF downloaded /\ ScriptAccepts(EnrollCommandOptions(timestamp))
    THEN Returned("enroll_speaker", u, downloaded, "success")
    ELSE Returned("enroll_speaker", u, downloaded, "error")

check_speaker_returns(u, speaker_name) ==
    IF get_db_path(u).raised THEN Raised("check_speaker", u)
    ELSE Returned("check_speaker", u, FALSE, None)

get_speakers_returns(u) ==
    IF get_db_path(u).raised THEN Raised("get_speakers", u)
    ELSE Returned("get_speakers", u, FALSE, None)

----------------------------------------------------------------------------
(* The mining pipeline: data-processing/extract_speaker_samples.py *)

\* thresholds are carried in tenths, times in milliseconds
MIN_VAD_SEGMENT_DURATION_S == 1000
INITIAL_CONFIDENCE_THRESHOLD == 3
CONFIDENCE_THRESHOLD_INCREMENT == 2

\* the threshold t (tenths, t >= 0) as a similarity
ThresholdSim(t) == [num |-> t * t, den |-> 10 * 10]

\* voice prints: against SeedVec the four segment prints score 0.8, 0.5, 0.3 and 0.2
SeedVec == <<1, 0, 0, 0>>
Seg8 == <<4, 3, 0, 0>>
Seg5 == <<1, 1, 1, 1>>
Seg3 == <<3, 9, 3, 1>>
Seg2 == <<1, 2, 2, 4>>
NoVector == <<>>
NoEmbedding == [num |-> NoVector, den |-> 1]

MinedSpeaker == "alice"
\* values of uuid.uuid4().hex[:4]
Suffixes == {"1f3a", "c07e"}

\* one speech segment of a VAD timeline: its bounds, the voice print of its audio
\* (NoVector: get_embedding fails for it), and whether chunk.export can write it
Segment(start_s, end_s, embedding, exportable) ==
    [start_s |-> start_s, end_s |-> end_s, embedding |-> embedding, exportable |-> exportable]

\* the timelines of the raw recordings
Recordings ==
    { <<>>,
      <<Segment(0, 2000, Seg8, TRUE), Segment(3000, 4500, Seg5, TRUE)>>,
      <<Segment(0, 2000, Seg2, TRUE)>>,
      <<Segment(0, 2000, NoVector, TRUE), Segment(3000, 4500, Seg5, TRUE)>>,
      <<Segment(0, 400, Seg8, TRUE), Segment(3000, 4500, Seg3, TRUE)>>,
      <<Segment(0, 2000, Seg8, TRUE), Segment(3000, 4500, Seg5, FALSE)>> }

\* a raw file: AudioSegment.from_file or the VAD pipeline raises for an unreadable one
Unreadable == [readable |-> FALSE, timeline |-> <<>>]
RawAudio == {Unreadable} \cup {[readable |-> TRUE, timeline |-> r] : r \in Recordings}

File(base, ext) == [base |-> base, ext |-> ext]
DirListings ==
    { {File("a", "wav"), File("a", "mp3")},
      {File("a", "wav"), File("b", "wav")},
      {File("a", "wav"), File("b", "txt")} }
AudioExtensions == {"wav", "mp3", "flac", "m4a"}

\* the possible contents of RAW_AUDIO_DIR
RawDirs ==
    {d \in UNION {[l -> RawAudio] : l \in DirListings} :
        \A f \in DOMAIN d : f.ext \notin AudioExtensions => d[f] = Unreadable}

Files == UNION DirListings

\* raw_files: os.listdir(RAW_AUDIO_DIR) filtered by extension
raw_files(dir) == {f \in DOMAIN dir : f.ext \in AudioExtensions}

\* the seed sample: missing, present but not embeddable, or a voice
InitialSamples ==
    { [exists |-> FALSE, embedding |-> NoVector],
      [exists |-> TRUE, embedding |-> NoVector],
      [exists |-> TRUE, embedding |-> SeedVec] }

\* current_embedding_source: the seed file, or the directory run_k
InitialSamplePath == [isdir |-> FALSE, run |-> 0]
RoundOutputDir(k) == [isdir |-> TRUE, run |-> k]

\* a clip left in run_1 by an earlier run of the pipeline
StaleClip == [speaker |-> MinedSpeaker, base |-> "a", start_ms |-> 0, end_ms |-> 2000, uuid |-> "9b2d"]
EmptyDir == <<>>
OutputDirs == {<<>>, <<[x \in {StaleClip} |-> Seg2]>>}

\* get_embedding(path)
get_embedding(sample) == [num |-> sample.embedding, den |-> 1]

RECURSIVE SumOfFiles(_, _)
SumOfFiles(dir, files) ==
    IF files = {} THEN ZeroVec
    ELSE LET f == CHOOSE f \in files : TRUE
         IN  VecAdd(dir[f], SumOfFiles(dir, files \ {f}))

\* get_embedding_from_folder: np.mean over the embeddings of the folder's files
get_embedding_from_folder(dir) ==
    IF DOMAIN dir = {} THEN NoEmbedding
    ELSE [num |-> SumOfFiles(dir, DOMAIN dir), den |-> Cardinality(DOMAIN dir)]

\* os.makedirs(round_output_dir, exist_ok=True)
makedirs(dirs, k) ==
    IF k \in DOMAIN dirs THEN dirs
    ELSE [x \in DOMAIN dirs \cup {k} |-> IF x = k THEN EmptyDir ELSE dirs[x]]

\* f"{speaker_name}_{raw_file_base}_t{start_ms}-{end_ms}_{uuid.uuid4().hex[:4]}.wav";
\* raw_file_base is the file name without its extension
OutputFilename(raw_file, segment, uuid) ==
    [speaker |-> MinedSpeaker, base |-> raw_file.base,
     start_ms |-> segment.start_s, end_ms |-> segment.end_s, uuid |-> uuid]

\* Only the equality of two suffixes matters, so of the draws that differ by a
\* renaming of suffixes one is kept: a segment draws "c07e" only when a clip of
\* its speaker, base name and times with "1f3a" is already in the directory.
CanonicalDraw(raw_file, timeline, uuid4, dir) ==
    \A i \in DOMAIN timeline :
        uuid4[i] = "1f3a" \/ OutputFilename(raw_file, timeline[i], "1f3a") \in DOMAIN dir

\* chunk.export(path): creates the file or overwrites the one of that name
export(dir, output_filename, chunk) ==
    [x \in DOMAIN dir \cup {output_filename} |-> IF x = output_filename THEN chunk ELSE dir[x]]

\* the state of the worker's loop
WorkerStart(dir) == [found_clips_in_file |-> 0, dir |-> dir, wrote |-> {}, raised |-> FALSE]

\* mutant: the threshold is inclusive
RECURSIVE ScanTimelineInclusive(_, _, _, _, _, _)
ScanTimelineInclusive(raw_file, timeline, i, args, uuid4, st) ==
    IF i > Len(timeline) THEN st
    ELSE LET segment == timeline[i]
             similarity == cosine_similarity(segment.embedding, args.master_embedding_np)
             output_filename == OutputFilename(raw_file, segment, uuid4[i])
         IN  IF segment.end_s - segment.start_s < MIN_VAD_SEGMENT_DURATION_S
             THEN ScanTimelineInclusive(raw_file, timeline, i + 1, args, uuid4, st)
             ELSE IF segment.embedding = NoVector
             THEN ScanTimelineInclusive(raw_file, timeline, i + 1, args, uuid4, st)
             ELSE IF ~SimGT(ThresholdSim(args.current_confidence_threshold), similarity)
             THEN IF segment.exportable
                  THEN ScanTimelineInclusive(raw_file, timeline, i + 1, args, uuid4,
                          [st EXCEPT !.found_clips_in_file = @ + 1,
                                     !.dir = export(@, output_filename, segment.embedding),
                                     !.wrote = @ \cup {[file |-> raw_file, segment |-> i,
                                                        output_filename |-> output_filename]}])
                  ELSE [st EXCEPT !.found_clips_in_file = @ + 1, !.raised = TRUE]
             ELSE ScanTimelineInclusive(raw_file, timeline, i + 1, args, uuid4, st)

\* mutant: a segment whose embedding fails raises and ends the file
RECURSIVE ScanTimelineEmbedRaises(_, _, _, _, _, _)
ScanTimelineEmbedRaises(raw_file, timeline, i, args, uuid4, st) ==
    IF i > Len(timeline) THEN st
    ELSE LET segment == timeline[i]
             similarity == cosine_similarity(segment.embedding, args.master_embedding_np)
             output_filename == OutputFilename(raw_file, segment, uuid4[i])
         IN  IF segment.end_s - segment.start_s < MIN_VAD_SEGMENT_DURATION_S
             THEN ScanTimelineEmbedRaises(raw_file, timeline, i + 1, args, uuid4, st)
             ELSE IF segment.embedding = NoVector
             THEN [st EXCEPT !.raised = TRUE]
             ELSE IF SimGT(similarity, ThresholdSim(args.current_confidence_threshold))
             THEN IF segment.exportable
                  THEN ScanTimelineEmbedRaises(raw_file, timeline, i + 1, args, uuid4,
                          [st EXCEPT !.found_clips_in_file = @ + 1,
                                     !.dir = export(@, output_filename, segment.embedding),
                                     !.wrote = @ \cup {[file |-> raw_file, segment |-> i,
                                                        output_filename |-> output_filename]}])
                  ELSE [st EXCEPT !.found_clips_in_file = @ + 1, !.raised = TRUE]
             ELSE ScanTimelineEmbedRaises(raw_file, timeline, i + 1, args, uuid4, st)

\* the loop over the timeline from segment i on; uuid4[i] is the suffix drawn for segment i
RECURSIVE ScanTimeline(_, _, _, _, _, _)
ScanTimeline(raw_file, timeline, i, args, uuid4, st) ==
    IF i > Len(timeline) THEN st
    ELSE LET segment == timeline[i]
             similarity == cosine_similarity(segment.embedding, args.master_embedding_np)
             output_filename == OutputFilename(raw_file, segment, uuid4[i])
         IN  IF segment.end_s - segment.start_s < MIN_VAD_SEGMENT_DURATION_S
             THEN ScanTimeline(raw_file, timeline, i + 1, args, uuid4, st)
             ELSE IF segment.embedding = NoVector
             THEN ScanTimeline(raw_file, timeline, i + 1, args, uuid4, st)
             ELSE IF SimGT(similarity, ThresholdSim(args.current_confidence_threshold))
             THEN IF segment.exportable
                  THEN ScanTimeline(raw_file, timeline, i + 1, args, uuid4,
                          [st EXCEPT !.found_clips_in_file = @ + 1,
                                     !.dir = export(@, output_filename, segment.embedding),
                                     !.wrote = @ \cup {[file |-> raw_file, segment |-> i,
                                                        output_filename |-> output_filename]}])
                  ELSE [st EXCEPT !.found_clips_in_file = @ + 1, !.raised = TRUE]
             ELSE ScanTimeline(raw_file, timeline, i + 1, args, uuid4, st)

\* what one call of process_single_raw_audio_file leaves behind and returns:
\* `except Exception: return 0`, else found_clips_in_file
Worker(raw_file, audio, args, uuid4, dir) ==
    IF ~audio.readable THEN [result |-> 0, dir |-> dir, wrote |-> {}]
    ELSE LET st == ScanTimeline(raw_file, audio.timeline, 1, args, uuid4, WorkerStart(dir))
         IN  [result |-> IF st.raised THEN 0 ELSE st.found_clips_in_file,
              dir |-> st.dir, wrote |-> st.wrote]

\* mutant: the increment without the cap
NextThresholdUncapped(t) == t + CONFIDENCE_THRESHOLD_INCREMENT

\* min(1.0, current_confidence_threshold + CONFIDENCE_THRESHOLD_INCREMENT)
NextThreshold(t) ==
    IF t + CONFIDENCE_THRESHOLD_INCREMENT < 10 THEN t + CONFIDENCE_THRESHOLD_INCREMENT ELSE 10

\* extract_samples up to the loop: the seed must exist
Begin ==
    /\ mpc = "start"
    /\ IF initial_sample.exists
       THEN /\ mpc' = "loop"
            /\ current_embedding_source' = InitialSamplePath
            /\ current_confidence_threshold' = INITIAL_CONFIDENCE_THRESHOLD
       ELSE /\ mpc' = "finished"
            /\ UNCHANGED <<current_embedding_source, current_confidence_threshold>>
    /\ UNCHANGED <<raw_audio, initial_sample, num_rounds, speakers_dir, round_num,
                   master_embedding_np, found_clips_count, futures, used, accepted>>
    /\ UNCHANGED <<serviceVars, toolVars>>

\* the top of a round: makedirs, the master embedding, one task per raw file
StartRound ==
    /\ mpc = "loop"
    /\ round_num < num_rounds
    /\ LET i == round_num + 1
           dirs == makedirs(speakers_dir, i)
           master == IF current_embedding_source.isdir
                     THEN get_embedding_from_folder(dirs[current_embedding_source.run])
                     ELSE get_embedding(initial_sample)
           args == [master_embedding_np |-> master,
                    current_confidence_threshold |-> current_confidence_threshold,
                    round_output_dir |-> i]
       IN  /\ round_num' = i
           /\ speakers_dir' = dirs
           /\ master_embedding_np' = master
           /\ used' = Append(used, [threshold |-> current_confidence_threshold, master |-> master])
           /\ accepted' = Append(accepted, {})
           /\ IF master = NoEmbedding
              THEN /\ mpc' = "finished"
                   /\ UNCHANGED <<found_clips_count, futures>>
              ELSE /\ mpc' = "collect"
                   /\ found_clips_count' = 0
                   /\ futures' = [f \in raw_files(raw_audio) |->
                                    [state |-> "pending", args |-> args, result |-> 0]]
    /\ UNCHANGED <<raw_audio, initial_sample, num_rounds, current_embedding_source,
                   current_confidence_threshold>>
    /\ UNCHANGED <<serviceVars, toolVars>>

\* a worker process runs the task of raw_file
process_single_raw_audio_file(raw_file, uuid4) ==
    /\ raw_file \in DOMAIN futures
    /\ futures[raw_file].state = "pending"
    /\ CanonicalDraw(raw_file, raw_audio[raw_file].timeline, uuid4,
                     speakers_dir[futures[raw_file].args.round_output_dir])
    /\ LET args == futures[raw_file].args
           out == Worker(raw_file, raw_audio[raw_file], args, uuid4,
                         speakers_dir[args.round_output_dir])
       IN  /\ futures' = [futures EXCEPT ![raw_file].state = "done",
                                         ![raw_file].result = out.result]
           /\ speakers_dir' = [speakers_dir EXCEPT ![args.round_output_dir] = out.dir]
           /\ accepted' = [accepted EXCEPT ![args.round_output_dir] = @ \cup out.wrote]
    /\ UNCHANGED <<raw_audio, initial_sample, num_rounds, mpc, round_num,
                   current_embedding_source, current_confidence_threshold,
                   master_embedding_np, found_clips_count, used>>
    /\ UNCHANGED <<serviceVars, toolVars>>

\* the task of raw_file runs, with some draw of suffixes
RunTask(raw_file) ==
    /\ raw_file \in DOMAIN futures
    /\ \E uuid4 \in [1..Len(raw_audio[raw_file].timeline) -> Suffixes] :
          process_single_raw_audio_file(raw_file, uuid4)

\* for future in as_completed(futures): found_clips_count += future.result()
CollectResult(raw_file) ==
    /\ mpc = "collect"
    /\ raw_file \in DOMAIN futures
    /\ futures[raw_file].state = "done"
    /\ futures' = [futures EXCEPT ![raw_file].state = "collected"]
    /\ found_clips_count' = found_clips_count + futures[raw_file].result
    /\ UNCHANGED <<raw_audio, initial_sample, num_rounds, speakers_dir, mpc, round_num,
                   current_embedding_source, current_confidence_threshold,
                   master_embedding_np, used, accepted>>
    /\ UNCHANGED <<serviceVars, toolVars>>

\* mutant: the round is decided as soon as one result is in
EndRoundFirstCompleted ==
    /\ mpc = "collect"
    /\ \E f \in DOMAIN futures : futures[f].state = "collected"
    /\ IF found_clips_count = 0
       THEN /\ mpc' = "finished"
            /\ UNCHANGED <<current_embedding_source, current_confidence_threshold>>
       ELSE /\ mpc' = "loop"
            /\ current_embedding_source' = RoundOutputDir(round_num)
            /\ current_confidence_threshold' = NextThreshold(current_confidence_threshold)
    /\ UNCHANGED <<raw_audio, initial_sample, num_rounds, speakers_dir, round_num,
                   master_embedding_np, found_clips_count, futures, used, accepted>>
    /\ UNCHANGED <<serviceVars, toolVars>>

\* mutant: an empty round does not end the pipeline
EndRoundNoBreak ==
    /\ mpc = "collect"
    /\ \A f \in DOMAIN futures : futures[f].state = "collected"
    /\ mpc' = "loop"
    /\ current_embedding_source' = RoundOutputDir(round_num)
    /\ current_confidence_threshold' = NextThreshold(current_confidence_threshold)
    /\ UNCHANGED <<raw_audio, initial_sample, num_rounds, speakers_dir, round_num,
                   master_embedding_np, found_clips_count, futures, used, accepted>>
    /\ UNCHANGED <<serviceVars, toolVars>>

\* every future has been taken from as_completed and the executor has shut down:
\* break on an empty round, else the round's directory and the next threshold
EndRound ==
    /\ mpc = "collect"
    /\ \A f \in DOMAIN futures : futures[f].state = "collected"
    /\ IF found_clips_count = 0
       THEN /\ mpc' = "finished"
            /\ UNCHANGED <<current_embedding_source, current_confidence_threshold>>
       ELSE /\ mpc' = "loop"
            /\ current_embedding_source' = RoundOutputDir(round_num)
            /\ current_confidence_threshold' = NextThreshold(current_confidence_threshold)
    /\ UNCHANGED <<raw_audio, initial_sample, num_rounds, speakers_dir, round_num,
                   master_embedding_np, found_clips_count, futures, used, accepted>>
    /\ UNCHANGED <<serviceVars, toolVars>>

\* range(1, num_rounds + 1) is exhausted
LoopExhausted ==
    /\ mpc = "loop"
    /\ round_num >= num_rounds
    /\ mpc' = "finished"
    /\ UNCHANGED <<raw_audio, initial_sample, num_rounds, speakers_dir, round_num,
                   current_embedding_source, current_confidence_threshold,
                   master_embedding_np, found_clips_count, futures, used, accepted>>
    /\ UNCHANGED <<serviceVars, toolVars>>

----------------------------------------------------------------------------
(* The enrollment tool: scripts/enroll_speaker.py *)

MaxEnrolled == 2

\* what can go wrong in a run after the speaker was looked up: Inference(...)
\* raises, convert_to_wav returns None, the inference call raises, np.save
\* raises, the INSERT INTO sources raises
ToolFaults == {"none", "model", "convert", "embed", "save", "insert"}

\* os.path.join(SPEAKERS_DIR, f"{speaker_name}_{uuid.uuid4().hex}.npy")
EmbeddingPath(speaker_name, hex) == [speaker_name |-> speaker_name, hex |-> hex]

\* INSERT INTO speakers (name) VALUES (?)
InsertSpeaker(d, speaker_name) ==
    [d EXCEPT !.speakers = Append(@, [id |-> Len(@) + 1, name |-> speaker_name])]

\* INSERT INTO sources (speaker_id, source_url, timestamp, embedding_path) VALUES (?, ?, ?, ?)
InsertSourcePath(d, speaker_id, source_url, timestamp, embedding_path) ==
    [d EXCEPT !.sources = Append(@, [speaker_id |-> speaker_id, source_url |-> source_url,
                                     timestamp |-> timestamp, embedding_path |-> embedding_path])]

\* mutant: the changes of the open transaction stay in the file
RollbackKeepsChanges(committed, txn) == txn

\* conn.rollback(): the file is as it was at the last commit
Rollback(committed, txn) == committed

\* conn.close() with a transaction open: its changes are discarded
CloseUncommitted(committed, txn) == committed

NoRun == [speaker_name |-> None, fault |-> "none", committed |-> FALSE]

\* one run of enroll_speaker_from_path on the file d and the directory dir:
\* the file and the directory after it, and whether conn.commit() was reached
ToolRun(d, dir, speaker_name, input_exists, source_url, timestamp, fault, hex) ==
    IF ~input_exists THEN [db |-> d, dir |-> dir, committed |-> FALSE]
    ELSE
    LET conn == sqlite_connect(d)
    IN  IF ~conn.schema
        THEN \* the SELECT raises sqlite3.OperationalError, which ends the script
             [db |-> conn, dir |-> dir, committed |-> FALSE]
        ELSE
        LET known == speaker_name \in SpeakerNames(conn)
            txn == IF known THEN conn ELSE InsertSpeaker(conn, speaker_name)
            speaker_id == IdOfName(txn, speaker_name)
            embedding_path == EmbeddingPath(speaker_name, hex)
            saved == dir \cup {embedding_path}
        IN  IF fault = "model"
            THEN [db |-> CloseUncommitted(conn, txn), dir |-> dir, committed |-> FALSE]
            ELSE IF fault \in {"convert", "embed", "save"}
            THEN [db |-> Rollback(conn, txn), dir |-> dir, committed |-> FALSE]
            ELSE IF fault = "insert"
            THEN [db |-> Rollback(conn, txn), dir |-> saved, committed |-> FALSE]
            ELSE [db |-> InsertSourcePath(txn, speaker_id, source_url, timestamp, embedding_path),
                  dir |-> saved, committed |-> TRUE]

\* python3 scripts/enroll_speaker.py -n ... -i ... [--url ...] [--timestamp ...]
enroll_speaker_from_path(speaker_name, input_exists, source_url, timestamp, fault, hex) ==
    LET run == ToolRun(speakers_db, embeddings_dir, speaker_name, input_exists,
                       source_url, timestamp, fault, hex)
    IN  /\ Len(speakers_db.sources) < MaxEnrolled
        /\ speakers_db' = run.db
        /\ embeddings_dir' = run.dir
        /\ tool_run' = [speaker_name |-> speaker_name, fault |-> fault, committed |-> run.committed]
        /\ UNCHANGED <<serviceVars, miningVars>>

\* the tool is not run
ToolIdle == speakers_db = NoDb /\ embeddings_dir = {} /\ tool_run = NoRun

----------------------------------------------------------------------------
(* Specifications *)

\* no mining run
MiningOff ==
    /\ raw_audio = <<>>
    /\ initial_sample = [exists |-> FALSE, embedding |-> NoVector]
    /\ num_rounds = 0
    /\ speakers_dir = <<>>
    /\ mpc = "finished"
    /\ round_num = 0
    /\ current_embedding_source = InitialSamplePath
    /\ current_confidence_threshold = INITIAL_CONFIDENCE_THRESHOLD
    /\ master_embedding_np = NoEmbedding
    /\ found_clips_count = 0
    /\ futures = <<>>
    /\ used = <<>>
    /\ accepted = <<>>

InitSessions ==
    /\ speaker_embeddings = <<>>
    /\ pc = [s \in Sessions |-> "idle"]
    /\ user_id = [s \in Sessions |-> None]
    /\ data = [s \in Sessions |-> NoChunk]
    /\ response_data = [s \in Sessions |-> NoResponse]
    /\ received = [s \in Sessions |-> 0]
    /\ emitted = [s \in Sessions |-> 0]
    /\ badSeen = [s \in Sessions |-> FALSE]
    /\ tmp = {}
    /\ response = NoRequest

\* the whole service: two connections and the administrative requests
Init ==
    /\ \E d \in InitialDbs({EnrA}, Timestamps, MaxInitSources) :
          db = [u \in UserIdInputs |-> IF u = "u1" THEN d ELSE NoDb]
    /\ InitSessions
    /\ ToolIdle
    /\ MiningOff

Next ==
    \/ \E s \in Sessions, u \in UserIds : Accept(s, u)
    \/ \E s \in Sessions : EnterLoop(s)
    \/ \E s \in Sessions, d \in SystemChunks : ReceiveChunk(s, d)
    \/ \E s \in Sessions : SendDecision(s)
    \/ \E s \in Sessions : Disconnect(s)
    \/ \E u \in UserIds, n \in Names, url \in Urls, t \in Timestamps, ok \in BOOLEAN :
          enroll_speaker(u, n, url, t, ok) /\ UNCHANGED response
    \/ \E u \in UserIds, n \in Names : check_speaker(u, n) /\ UNCHANGED response
    \/ \E u \in UserIds : get_speakers(u) /\ UNCHANGED response
    \/ \E u \in UserIds : wipe_db(u) /\ UNCHANGED response
    \/ \E u \in UserIds, n \in Names : delete_speaker(u, n) /\ UNCHANGED response
    \/ \E u \in UserIds, n \in Names, url \in Urls, t \in Timestamps :
          delete_source(u, n, url, t) /\ UNCHANGED response

Spec == Init /\ [][Next]_vars

\* one connection streaming against a pre-existing gallery
InitStream ==
    /\ \E d \in InitialDbs(EnrolledVecs, {None}, MaxSources) :
          db = [u \in UserIdInputs |-> IF u = "u1" THEN d ELSE NoDb]
    /\ InitSessions
    /\ ToolIdle
    /\ MiningOff

NextStream ==
    \/ Accept("c1", "u1")
    \/ EnterLoop("c1")
    \/ \E d \in Chunks : ReceiveChunk("c1", d)
    \/ SendDecision("c1")
    \/ Disconnect("c1")

SpecStream == InitStream /\ [][NextStream]_vars

\* one connection and the administrative requests, with well-formed and
\* malformed user ids (a websocket path parameter is never empty); the outcome of
\* every request is recorded
NextAdmission ==
    \/ \E u \in UserIdInputs \ {""} : Accept("c1", u)
    \/ EnterLoop("c1")
    \/ \E d \in SystemChunks : ReceiveChunk("c1", d)
    \/ SendDecision("c1")
    \/ Disconnect("c1")
    \/ \E u \in UserIdInputs, n \in Names, url \in Urls, t \in Timestamps, ok \in BOOLEAN :
          /\ enroll_speaker(u, n, url, t, ok)
          /\ response' = enroll_speaker_returns(u, n, url, t, ok)
    \/ \E u \in UserIdInputs, n \in Names :
          check_speaker(u, n) /\ response' = check_speaker_returns(u, n)
    \/ \E u \in UserIdInputs : get_speakers(u) /\ response' = get_speakers_returns(u)
    \/ \E u \in UserIdInputs : wipe_db(u) /\ response' = wipe_db_returns(u)
    \/ \E u \in UserIdInputs, n \in Names :
          delete_speaker(u, n) /\ response' = delete_speaker_returns(u, n)
    \/ \E u \in UserIdInputs, n \in Names, url \in Urls, t \in Timestamps :
          delete_source(u, n, url, t) /\ response' = delete_source_returns(u, n, url, t)

SpecAdmission == Init /\ [][NextAdmission]_vars

\* one run of extract_samples over a raw directory, with no service running
InitMining ==
    /\ db = [u \in UserIdInputs |-> NoDb]
    /\ InitSessions
    /\ ToolIdle
    /\ raw_audio \in RawDirs
    /\ initial_sample \in InitialSamples
    /\ num_rounds \in 0..MaxRounds
    /\ speakers_dir \in OutputDirs
    /\ mpc = "start"
    /\ round_num = 0
    /\ current_embedding_source = InitialSamplePath
    /\ current_confidence_threshold = INITIAL_CONFIDENCE_THRESHOLD
    /\ master_embedding_np = NoEmbedding
    /\ found_clips_count = 0
    /\ futures = <<>>
    /\ used = <<>>
    /\ accepted = <<>>

NextMining ==
    \/ Begin
    \/ StartRound
    \/ \E f \in Files : RunTask(f)
    \/ \E f \in Files : CollectResult(f)
    \/ EndRound
    \/ LoopExhausted

SpecMining == InitMining /\ [][NextMining]_vars

\* a run over a raw directory in which at most one file can be read.  The main
\* process runs on as long as it has a step to take: pool.submit and
\* future.result() return for every task, since a worker catches what its file raises
InitMiningFair ==
    /\ InitMining
    /\ Cardinality({f \in DOMAIN raw_audio : raw_audio[f].readable}) <= 1
SpecMiningFair == InitMiningFair /\ [][NextMining]_vars /\ WF_vars(NextMining)

\* runs of the enrollment tool on its own database, which scripts/initialize_database.py
\* may or may not have created, with no service and no mining run
InitTool ==
    /\ db = [u \in UserIdInputs |-> NoDb]
    /\ InitSessions
    /\ MiningOff
    /\ speakers_db \in {NoDb, EmptyDb}
    /\ embeddings_dir = {}
    /\ tool_run = NoRun

NextTool ==
    \E n \in Names, input_exists \in BOOLEAN, url \in Urls \cup {None}, t \in Timestamps,
       fault \in ToolFaults, hex \in TempIds :
        enroll_speaker_from_path(n, input_exists, url, t, fault, hex)

SpecTool == InitTool /\ [][NextTool]_vars

----------------------------------------------------------------------------
(* Properties *)

Active(s) == pc[s] \in {"recv", "send"}
Min(S) == CHOOSE x \in S : \A y \in S : x <= y

\* the gallery a chunk of user u is scored against: the cache entry, none when absent
CachedGallery(u) == IF u \in DOMAIN speaker_embeddings THEN speaker_embeddings[u] ELSE <<>>
ScoreOf(live, g, i) == cosine_similarity(live, g[i].embedding)
Hits(live, g) == {i \in DOMAIN g : SimGT(ScoreOf(live, g, i), THRESHOLD)}

\* C1: a chunk that fails to decode or to embed leaves the session Active (the
\* handler goes on to send a decision and then waits for the next chunk), and
\* every valid chunk, also one that follows a bad chunk, gets the decision the
\* cached gallery and the threshold dictate: MUTE exactly when some cached speaker
\* scores above the threshold.  The session closes only in the step of the
\* channel closing or failing.
C1_BadChunkKeepsSession ==
    [][\A s \in Sessions :
          /\ received'[s] # received[s] =>
                /\ pc'[s] = "send"
                /\ data'[s].kind = "ok" =>
                      response_data'[s].isTargetSpeaker =
                          (Hits(data'[s].emb, CachedGallery(user_id[s])) # {})
                /\ data'[s].kind # "ok" => response_data'[s].action = "UNMUTE"
          /\ emitted'[s] # emitted[s] => pc'[s] = "recv"
          /\ (pc[s] # "closed" /\ pc'[s] = "closed") =>
                received'[s] = received[s] /\ emitted'[s] = emitted[s]]_vars

\* C1 witness: after a bad chunk, a valid chunk of the same session was matched
C1_Witness ==
    \E s \in Sessions :
        /\ badSeen[s] /\ pc[s] = "send" /\ data[s].kind = "ok"
        /\ response_data[s].action = "MUTE"

\* C2 (the claim as stated): while two sessions are Active, a step of one of them
\* leaves the gallery the other one's chunks are scored against unchanged.
C2_SessionsIndependent ==
    [][\A s, t \in Sessions :
          (s # t /\ Active(s) /\ Active(t) /\ pc'[t] # pc[t]) =>
              CachedGallery(user_id[s])' = CachedGallery(user_id[s])]_vars

SourcesOf(d, name) ==
    SelectSeq(d.sources, LAMBDA r : name \in SpeakerNames(d) /\ r.speaker_id = IdOfName(d, name))
RECURSIVE SumOfEmbeddings(_, _)
SumOfEmbeddings(rows, i) ==
    IF i > Len(rows) THEN ZeroVec ELSE VecAdd(rows[i].embedding, SumOfEmbeddings(rows, i + 1))
ArithmeticMean(rows) == [num |-> SumOfEmbeddings(rows, 1), den |-> Len(rows)]

\* C3 (the claim as stated): every speaker with n >= 1 persisted sources has a
\* gallery entry, and that entry is the arithmetic mean of all n source embeddings.
C3_GalleryIsMean ==
    \A u \in DOMAIN speaker_embeddings :
        LET g == speaker_embeddings[u]
        IN  /\ \A n \in SpeakerNames(db[u]) : SourcesOf(db[u], n) # <<>> => n \in GalleryNames(g)
            /\ \A i \in DOMAIN g :
                  EmbEq(g[i].embedding, ArithmeticMean(SourcesOf(db[u], g[i].name)))

\* C4: when some speaker of the gallery scores above the threshold, the decision
\* is a match, for the first such speaker in the gallery's insertion order, with
\* that speaker's score - whether or not a later speaker scores higher.
C4_FirstExceedingWins ==
    \A s \in Sessions :
        (pc[s] = "send" /\ data[s].kind = "ok" /\ user_id[s] \in DOMAIN speaker_embeddings) =>
            LET g == speaker_embeddings[user_id[s]]
                live == data[s].emb
                result == is_target_speaker(data[s], user_id[s], speaker_embeddings)
            IN  Hits(live, g) # {} =>
                    /\ result.is_target
                    /\ result.speaker = g[Min(Hits(live, g))].name
                    /\ SimEq(result.similarity_score, ScoreOf(live, g, Min(Hits(live, g))))
                    /\ response_data[s] = ResponseData(TRUE, result.similarity_score)

\* C4 witness: two speakers exceed the threshold and the reported one is not the best
C4_Witness ==
    \E s \in Sessions :
        /\ pc[s] = "send" /\ data[s].kind = "ok" /\ response_data[s].action = "MUTE"
        /\ user_id[s] \in DOMAIN speaker_embeddings
        /\ Cardinality(Hits(data[s].emb, speaker_embeddings[user_id[s]])) >= 2
        /\ \E i \in DOMAIN speaker_embeddings[user_id[s]] :
              SimGT(ScoreOf(data[s].emb, speaker_embeddings[user_id[s]], i),
                    response_data[s].similarity_score)

\* C5: against a gallery of exactly one speaker S the decision is a match for S
\* when S scores strictly above the threshold, and no match when the score is
\* at or below the threshold.
C5_SingleSpeaker ==
    \A s \in Sessions :
        (pc[s] = "send" /\ data[s].kind = "ok" /\ user_id[s] \in DOMAIN speaker_embeddings
         /\ Len(speaker_embeddings[user_id[s]]) = 1) =>
            LET g == speaker_embeddings[user_id[s]]
                score == ScoreOf(data[s].emb, g, 1)
                result == is_target_speaker(data[s], user_id[s], speaker_embeddings)
            IN  /\ response_data[s].isTargetSpeaker = result.is_target
                /\ SimGT(score, THRESHOLD) =>
                      result.is_target /\ result.speaker = g[1].name
                                       /\ response_data[s].action = "MUTE"
                /\ ~SimGT(score, THRESHOLD) =>
                      ~result.is_target /\ response_data[s].action = "UNMUTE"

\* C5 witness: the only speaker scores exactly the threshold and the decision is no match
C5_Witness ==
    \E s \in Sessions :
        /\ pc[s] = "send" /\ data[s].kind = "ok" /\ user_id[s] \in DOMAIN speaker_embeddings
        /\ Len(speaker_embeddings[user_id[s]]) = 1
        /\ SimEq(ScoreOf(data[s].emb, speaker_embeddings[user_id[s]], 1), THRESHOLD)
        /\ response_data[s].action = "UNMUTE"

\* C6 (the claim as stated): when no speaker of a non-empty gallery scores above the
\* threshold, the decision is no match and its similarity is the maximum of the
\* scores of the gallery's speakers.
C6_NoMatchReportsMaximum ==
    \A s \in Sessions :
        (pc[s] = "send" /\ data[s].kind = "ok" /\ user_id[s] \in DOMAIN speaker_embeddings
         /\ speaker_embeddings[user_id[s]] # <<>>
         /\ Hits(data[s].emb, speaker_embeddings[user_id[s]]) = {}) =>
            LET g == speaker_embeddings[user_id[s]]
                live == data[s].emb
            IN  /\ response_data[s].action = "UNMUTE"
                /\ \E i \in DOMAIN g :
                      /\ SimEq(response_data[s].similarity_score, ScoreOf(live, g, i))
                      /\ \A j \in DOMAIN g : ~SimGT(ScoreOf(live, g, j), ScoreOf(live, g, i))

\* C7: the step that closes a session removes the cache entry of the session's
\* user, and a closed session stays closed, takes no further chunk and emits no
\* further decision.
C7_ClosedIsFinal ==
    [][\A s \in Sessions :
          /\ (pc[s] # "closed" /\ pc'[s] = "closed") =>
                user_id[s] \notin DOMAIN speaker_embeddings'
          /\ pc[s] = "closed" =>
                /\ pc'[s] = "closed"
                /\ received'[s] = received[s]
                /\ emitted'[s] = emitted[s]
                /\ response_data'[s] = NoResponse]_vars

\* C7 witness: a session that processed a chunk is closed and its user's entry is gone
C7_Witness ==
    \E s \in Sessions :
        /\ pc[s] = "closed" /\ emitted[s] >= 1
        /\ user_id[s] \notin DOMAIN speaker_embeddings

\* C8 (the claim as stated): every chunk a session received has had its decision
\* emitted once the handler is past the send.
C8_EveryChunkAnswered ==
    \A s \in Sessions : pc[s] # "send" => emitted[s] = received[s]

\* C8 (amended): chunks are taken one at a time - while the handler waits for a
\* chunk every chunk received so far has had exactly one decision emitted, while
\* it sends exactly one decision is outstanding - and at most one chunk, the one
\* in flight when the channel closed or failed, is left without a decision.
C8_OneAtATime ==
    \A s \in Sessions :
        /\ pc[s] \in {"idle", "accepted"} => received[s] = 0 /\ emitted[s] = 0
        /\ pc[s] = "recv" => emitted[s] = received[s]
        /\ pc[s] = "send" => received[s] = emitted[s] + 1
        /\ pc[s] = "closed" => emitted[s] <= received[s] /\ received[s] <= emitted[s] + 1

\* C8 witness: two chunks were answered in turn and the handler waits for a third
C8_Witness ==
    \E s \in Sessions : pc[s] = "recv" /\ received[s] >= 2 /\ emitted[s] = received[s]

\* C9: whenever the cache holds an entry for user u, the entry is the gallery
\* that loading u's current database rows gives; and right after a request that
\* changed u's rows (delete-speaker, delete-source, wipe, enroll), the gallery
\* that u's sessions score against - none when the entry is absent - is the one
\* the changed rows give.
C9_CacheMatchesStore ==
    /\ [](\A u \in DOMAIN speaker_embeddings : speaker_embeddings[u] = LoadGallery(db[u]))
    /\ [][\A u \in UserIds :
            (db'[u].speakers # db[u].speakers \/ db'[u].sources # db[u].sources) =>
                CachedGallery(u)' = LoadGallery(db'[u])]_vars

\* C9 witness: a source was deleted (its speaker is left without any) while a
\* session of the user is Active, and the cached gallery holds the other speaker
C9_Witness ==
    \E u \in DOMAIN speaker_embeddings :
        /\ \E s \in Sessions : Active(s) /\ user_id[s] = u
        /\ \E n \in SpeakerNames(db[u]) : SourcesOf(db[u], n) = <<>>
        /\ speaker_embeddings[u] # <<>>

\* C10 (the claim as stated): every speaker row of a user's database has at least
\* one source row.
C10_SpeakerHasSource ==
    \A u \in UserIds : \A n \in SpeakerNames(db[u]) : SourcesOf(db[u], n) # <<>>

\* C11: no source row of a user's database references a speaker row that is
\* missing; and a step that removes a speaker row (delete-speaker found the name,
\* or a wipe) leaves no source row with that speaker's id and no entry for the
\* name in the gallery the user's chunks are scored against.
C11_DeleteCascades ==
    /\ [](\A u \in UserIds : \A i \in DOMAIN db[u].sources :
              db[u].sources[i].speaker_id \in SpeakerIds(db[u]))
    /\ [][\A u \in UserIds : \A n \in SpeakerNames(db[u]) \ SpeakerNames(db'[u]) :
            /\ \A i \in DOMAIN db'[u].sources :
                  db'[u].sources[i].speaker_id # IdOfName(db[u], n)
            /\ n \notin GalleryNames(CachedGallery(u)')]_vars

\* C11 witness: the first speaker of a database with two speakers was deleted;
\* the other speaker, its sources and its gallery entry are still there
C11_Witness ==
    \E u \in DOMAIN speaker_embeddings :
        /\ Len(db[u].speakers) = 1 /\ db[u].speakers[1].id = 2
        /\ db[u].sources # <<>>
        /\ GalleryNames(speaker_embeddings[u]) = SpeakerNames(db[u])

----------------------------------------------------------------------------
(* Properties of the mining pipeline *)

\* the tasks of the current round have all run
AllRan == \A f \in DOMAIN futures : futures[f].state # "pending"
AllCollected == \A f \in DOMAIN futures : futures[f].state = "collected"

\* the segments of raw file f written as clips in round k
Persisted(k, f) == {c.segment : c \in {x \in accepted[k] : x.file = f}}

\* the three conditions of the worker's loop for one segment
Qualifies(segment, master, threshold) ==
    /\ segment.end_s - segment.start_s >= MIN_VAD_SEGMENT_DURATION_S
    /\ segment.embedding # NoVector
    /\ SimGT(cosine_similarity(segment.embedding, master), ThresholdSim(threshold))
Qualifying(f, master, threshold) ==
    {i \in DOMAIN raw_audio[f].timeline : Qualifies(raw_audio[f].timeline[i], master, threshold)}

\* the segments at which the worker of f is stopped by an exception
Failing(f, master, threshold) ==
    {i \in Qualifying(f, master, threshold) : ~raw_audio[f].timeline[i].exportable}

RECURSIVE SumOfResults(_, _)
SumOfResults(tasks, fs) ==
    IF fs = {} THEN 0
    ELSE LET f == CHOOSE f \in fs : TRUE IN tasks[f].result + SumOfResults(tasks, fs \ {f})

\* the round in progress or just ended has run on every file, or could not compute
\* its master embedding, and no clip was written in it
EmptyRound == round_num >= 1 /\ mpc # "start" /\ AllRan /\ accepted[round_num] = {}

\* C12: once a round has run on every raw file and accepted no clip (or could
\* not compute its master embedding), its aggregated count is 0 and every later
\* step of the run leaves the round number, the rounds on record and the set of
\* round directories as they are: the main process only collects the remaining
\* results and ends, no later round starts and no later directory is created.
C12_EmptyRoundEndsRun ==
    /\ [](EmptyRound /\ AllCollected => found_clips_count = 0)
    /\ [][EmptyRound =>
            /\ mpc' \in {"collect", "finished"}
            /\ round_num' = round_num
            /\ used' = used /\ accepted' = accepted
            /\ DOMAIN speakers_dir' = DOMAIN speakers_dir]_vars

\* C12 witness: two or more rounds were requested, the raw files hold speech, no
\* segment scored above the initial threshold, and the run ended with run_1 only
C12_Witness ==
    /\ mpc = "finished" /\ round_num = 1 /\ num_rounds >= 2
    /\ used[1].threshold = INITIAL_CONFIDENCE_THRESHOLD /\ used[1].master # NoEmbedding
    /\ \E f \in DOMAIN futures : raw_audio[f].readable /\ raw_audio[f].timeline # <<>>
    /\ accepted[1] = {} /\ DOMAIN speakers_dir = {1}

RECURSIVE SumOfClips(_)
SumOfClips(clips) ==
    IF clips = {} THEN ZeroVec
    ELSE LET c == CHOOSE c \in clips : TRUE
         IN  VecAdd(raw_audio[c.file].timeline[c.segment].embedding, SumOfClips(clips \ {c}))
MeanOfClips(clips) == [num |-> SumOfClips(clips), den |-> Cardinality(clips)]

\* C14 (the claim as stated): every round after the first uses the mean of the
\* embeddings of exactly the clips accepted in the round before as its master
\* embedding, and the threshold of the round before plus the increment, capped at 1.0.
C14_NextMasterIsMeanOfAccepted ==
    \A k \in DOMAIN used :
        k > 1 =>
            /\ used[k].threshold = Min({10, used[k - 1].threshold + CONFIDENCE_THRESHOLD_INCREMENT})
            /\ accepted[k - 1] # {}
            /\ EmbEq(used[k].master, MeanOfClips(accepted[k - 1]))

\* C15: all tasks of a round carry the master embedding, the threshold and the
\* directory of that round; and the step that decides the round (break, or the
\* next embedding source and threshold), and any step that computes a master
\* embedding, is taken only when every task of the round has completed and its
\* result has been added, the count being the sum of all the tasks' results.
C15_RoundIsBarrier ==
    /\ [](\A f \in DOMAIN futures :
              futures[f].args = [master_embedding_np |-> master_embedding_np,
                                 current_confidence_threshold |-> used[round_num].threshold,
                                 round_output_dir |-> round_num])
    /\ [][(\/ mpc = "collect" /\ mpc' # "collect"
           \/ current_embedding_source' # current_embedding_source
           \/ current_confidence_threshold' # current_confidence_threshold
           \/ master_embedding_np' # master_embedding_np) =>
              /\ AllCollected
              /\ found_clips_count = SumOfResults(futures, DOMAIN futures)]_vars

\* C15 witness: a round over two raw files, each of which gave a clip, has been decided
C15_Witness ==
    /\ mpc = "loop" /\ round_num >= 1
    /\ Cardinality(DOMAIN futures) = 2
    /\ \A f \in DOMAIN futures : futures[f].state = "collected" /\ futures[f].result >= 1
    /\ current_embedding_source = RoundOutputDir(round_num)

\* C16 (the claim as stated): two distinct segments accepted in one round are
\* written under different file names.
C16_DistinctFilenames ==
    \A k \in DOMAIN accepted : \A a, b \in accepted[k] :
        (a.file # b.file \/ a.segment # b.segment) => a.output_filename # b.output_filename

Fails(f, master, threshold) == ~raw_audio[f].readable \/ Failing(f, master, threshold) # {}

\* C18: a raw file whose worker fails is counted with 0; of a raw file whose
\* worker does not fail, a segment whose embedding fails is skipped and every
\* qualifying segment, before or after it, is written and counted; and when the
\* round is decided every raw file has been processed and the round's count is
\* the sum of the files' counts.
C18_FailuresAreNotFatal ==
    /\ \A f \in DOMAIN futures :
          futures[f].state # "pending" =>
              LET master == futures[f].args.master_embedding_np
                  threshold == futures[f].args.current_confidence_threshold
              IN  IF Fails(f, master, threshold)
                  THEN futures[f].result = 0
                  ELSE /\ Persisted(round_num, f) = Qualifying(f, master, threshold)
                       /\ futures[f].result = Cardinality(Qualifying(f, master, threshold))
    /\ DOMAIN futures \in {{}, raw_files(raw_audio)}
    /\ (mpc \in {"loop", "finished"} /\ master_embedding_np # NoEmbedding) =>
          /\ AllCollected
          /\ found_clips_count = SumOfResults(futures, DOMAIN futures)

\* C18 witness: one raw file could not be read, in the other a segment's
\* embedding failed and the segment after it was written; the round counted 1
C18_Witness ==
    /\ mpc = "loop" /\ round_num = 1 /\ found_clips_count = 1
    /\ \E f, g \in DOMAIN futures :
          /\ ~raw_audio[f].readable /\ futures[f].result = 0
          /\ Len(raw_audio[g].timeline) = 2
          /\ raw_audio[g].timeline[1].embedding = NoVector
          /\ Persisted(1, g) = {2} /\ futures[g].result = 1

\* C19: the decision a session is sending has action "MUTE" exactly when its
\* isTargetSpeaker is true and "UNMUTE" exactly when it is false; for a chunk
\* that failed to decode or to embed it is "UNMUTE" with isTargetSpeaker false.
C19_ActionFollowsDecision ==
    \A s \in Sessions :
        pc[s] = "send" =>
            /\ response_data[s].action = "MUTE" <=> response_data[s].isTargetSpeaker
            /\ response_data[s].action = "UNMUTE" <=> ~response_data[s].isTargetSpeaker
            /\ data[s].kind # "ok" =>
                  response_data[s].action = "UNMUTE" /\ ~response_data[s].isTargetSpeaker

\* C19 witness: a MUTE decision has been emitted and the decision for a chunk
\* that failed to embed is being sent
C19_Witness ==
    \E s \in Sessions :
        /\ pc[s] = "send" /\ data[s].kind = "noinfer" /\ emitted[s] >= 1
        /\ speaker_embeddings[user_id[s]] # <<>>
        /\ response_data[s] = ResponseData(FALSE, ZeroSim)

\* C20: for a malformed user id no database file ever exists and no cache entry
\* is ever made, whatever requests and connections carry it; and a connection
\* carrying one never gets to take a chunk.
C20_MalformedIdRejected ==
    /\ [](\A u \in MalformedIds : db[u] = NoDb /\ u \notin DOMAIN speaker_embeddings)
    /\ [][\A s \in Sessions :
            user_id'[s] \in MalformedIds =>
                pc'[s] \in {"accepted", "closed"} /\ received'[s] = 0]_vars

\* C20 witness: a connection with a malformed user id was accepted and closed,
\* while the database of a well-formed user holds sources
C20_Witness ==
    /\ \E s \in Sessions : user_id[s] \in MalformedIds /\ pc[s] = "closed"
    /\ \E u \in UserIds : db[u].sources # <<>>
    /\ \A u \in MalformedIds : ~db[u].exists

\* C21: every administrative request (enroll, wipe, delete speaker, delete source,
\* list, existence check) ends with a payload for its caller and never with an
\* exception that leaves the handler, whatever the user id
C21_StructuredPayloadAlways == ~response.raised

\* C22: an enrollment request for a well-formed user id whose download succeeded
\* returns "success" and leaves one more source row in that user's database
C22_EnrollmentAppendsSource ==
    [][\A u \in UserIds :
          /\ response' # response
          /\ response'.op = "enroll_speaker"
          /\ response'.userId = u
          /\ response'.acquired
          => /\ response'.status = "success"
             /\ db'[u].schema
             /\ Len(db'[u].sources) = Len(db[u].sources) + 1]_vars

\* C23: once an enrollment request has returned, on whichever path (download
\* failed, script failed, success), the audio file it downloaded into the tmp
\* directory is gone
C23_TempFileRemoved == tmp = {}

\* an enrollment whose download wrote the file and whose script then failed
C23_Witness ==
    /\ response.op = "enroll_speaker"
    /\ response.acquired
    /\ response.status = "error"
    /\ tmp = {}

\* C24: whenever no connection of a user is in its receive loop, the cache
\* speaker_embeddings holds no entry for that user
C24_CacheOnlyWhileActive ==
    \A u \in UserIds :
        (~\E s \in Sessions : Active(s) /\ user_id[s] = u) => u \notin DOMAIN speaker_embeddings

\* the gallery maps the same speakers to the same embeddings
SameGallery(g, h) ==
    /\ GalleryNames(g) = GalleryNames(h)
    /\ \A n \in GalleryNames(g) :
          EmbEq(g[GalleryIndex(g, n)].embedding, h[GalleryIndex(h, n)].embedding)

MeanOfTwo(rows) == [num |-> VecAdd(rows[1].embedding, rows[2].embedding), den |-> 2]

\* C26: when a second source is persisted for a speaker that has exactly one
\* source, the gallery loaded afterwards holds for that speaker the mean of the
\* two sources' embeddings
C26_SecondSourceGivesMean ==
    \A u \in UserIds :
        /\ \A e \in Enrollments(EnrolledVecs, {None}) :
              db[u].schema /\ Len(SourcesOf(db[u], e.name)) = 1 =>
                 LET persisted == InsertSource(db[u], e)
                     g == StoreGallery(speaker_embeddings, u, persisted)[u]
                     both == SourcesOf(persisted, e.name)
                 IN  /\ Len(both) = 2
                     /\ e.name \in GalleryNames(g)
                     /\ EmbEq(g[GalleryIndex(g, e.name)].embedding, MeanOfTwo(both))
        /\ u \in DOMAIN speaker_embeddings =>
              \A n \in SpeakerNames(db[u]) :
                  Len(SourcesOf(db[u], n)) = 2 =>
                     LET g == speaker_embeddings[u]
                     IN  /\ n \in GalleryNames(g)
                         /\ EmbEq(g[GalleryIndex(g, n)].embedding, MeanOfTwo(SourcesOf(db[u], n)))

\* a connection has loaded the gallery of a store in which a speaker has two
\* sources with different embeddings
C26_Witness ==
    /\ Active("c1")
    /\ "u1" \in DOMAIN speaker_embeddings
    /\ \E n \in GalleryNames(speaker_embeddings["u1"]) :
          /\ Len(SourcesOf(db["u1"], n)) = 2
          /\ SourcesOf(db["u1"], n)[1].embedding # SourcesOf(db["u1"], n)[2].embedding

\* the last administrative request was a wipe of u's store that returned "success"
Wiped(u) == response.op = "wipe_db" /\ response.userId = u /\ response.status = "success"

\* C27: after a successful wipe for user u (and until another administrative
\* request), u's database file exists with both tables and no rows, a cached
\* gallery of u is empty, and every chunk a connection of u takes gets a
\* no-match decision
C27_WipeEmptiesStoreAndGallery ==
    /\ [](\A u \in UserIds :
            Wiped(u) => /\ db[u] = EmptyDb
                        /\ u \in DOMAIN speaker_embeddings => speaker_embeddings[u] = <<>>)
    /\ [][\A s \in Sessions :
            /\ Wiped(user_id[s])
            /\ response' = response
            /\ Active(s)
            /\ received'[s] = received[s] + 1
            => /\ pc'[s] = "send"
               /\ ~response_data'[s].isTargetSpeaker
               /\ response_data'[s].action = "UNMUTE"]_vars

\* after the wipe a connection of u1 has taken a chunk of the voice that was
\* enrolled before and is about to send a no-match decision
C27_Witness ==
    /\ Wiped("u1")
    /\ db["u1"] = EmptyDb
    /\ pc["c1"] = "send"
    /\ user_id["c1"] = "u1"
    /\ data["c1"] = [kind |-> "ok", emb |-> LiveA]
    /\ ~response_data["c1"].isTargetSpeaker

\* C28: whenever a user's database file exists it has the speakers and sources
\* tables; a delete request for a user without a file leaves no file without
\* tables behind
C28_ExistingFileHasSchema == \A u \in UserIdInputs : db[u].exists => db[u].schema

\* C29: when all results of a round have been added, the round's count is the
\* number of clips the workers wrote into the round's directory, so a count of
\* zero means that the directory received no clip
C29_CountIsClipsPersisted ==
    (round_num >= 1 /\ mpc # "start" /\ AllCollected) =>
        /\ found_clips_count = Cardinality(accepted[round_num])
        /\ found_clips_count = 0 => accepted[round_num] = {}

\* the round whose threshold is the cap 1.0
RoundAtCap ==
    (10 - INITIAL_CONFIDENCE_THRESHOLD + CONFIDENCE_THRESHOLD_INCREMENT - 1)
        \div CONFIDENCE_THRESHOLD_INCREMENT + 1

C31_DecisionAgreesWithThreshold ==
    \A s \in Sessions :
        pc[s] = "send" =>
            /\ response_data[s].isTargetSpeaker =>
                  SimGT(response_data[s].similarity_score, THRESHOLD)
            /\ ~response_data[s].isTargetSpeaker =>
                  ~SimGT(response_data[s].similarity_score, THRESHOLD)
            /\ (data[s].kind # "ok" \/ CachedGallery(user_id[s]) = <<>>) =>
                  /\ ~response_data[s].isTargetSpeaker
                  /\ response_data[s].similarity_score = ZeroSim

\* a no-match decision whose similarity is exactly 0.4 is being sent, after a
\* match decision of the same session was emitted
C31_Witness ==
    \E s \in Sessions :
        /\ pc[s] = "send" /\ data[s].kind = "ok" /\ emitted[s] >= 1
        /\ ~response_data[s].isTargetSpeaker
        /\ SimEq(response_data[s].similarity_score, THRESHOLD)

\* C32: a run of the enrollment tool that fails (the input is missing, the model
\* does not load, the audio cannot be converted or embedded, the embedding or
\* the source row cannot be written) commits neither a speaker row nor a
\* source row; a speaker row appears only in a run that commits its source row
C32_FailedRunLeavesStore ==
    [][/\ ~tool_run'.committed =>
            /\ speakers_db'.speakers = speakers_db.speakers
            /\ speakers_db'.sources = speakers_db.sources
       /\ speakers_db'.speakers # speakers_db.speakers =>
            /\ tool_run'.committed
            /\ Len(speakers_db'.sources) = Len(speakers_db.sources) + 1]_vars

\* the last run was for a speaker the store does not know and failed after the
\* speaker row had been inserted; an earlier run had enrolled another speaker
C32_Witness ==
    /\ ~tool_run.committed
    /\ tool_run.fault \in {"model", "convert", "embed", "save", "insert"}
    /\ speakers_db.schema
    /\ speakers_db.speakers # <<>>
    /\ tool_run.speaker_name \notin SpeakerNames(speakers_db)

====
